---- MODULE Spec2Model ----
(***************************************************************************)
(* A model of launch-rs (lib/src/launchpad.rs): the encoders of the two    *)
(* Launchpad generations, the validators they call, and the event channel  *)
(* between the MIDI input callback and poll.                               *)
(*                                                                         *)
(* A panic (assert!, panic!, unwrap of an Err) ends the call in which it   *)
(* happens: the frames handed to the output before it stay handed.         *)
(*                                                                         *)
(* The three parts share nothing but LaunchpadInternal, and each has its   *)
(* specification: SpecMk2 (impl LaunchpadMk2), SpecMk1 (impl Launchpad)    *)
(* and SpecQueue (the input callback and poll).                            *)
(***************************************************************************)
EXTENDS Integers, Sequences, FiniteSets, TLC

VARIABLES
    call,       \* the most recent encoder call: its name, arguments and outcome
    sent,       \* the frames that call handed to output_port.send, in order
    queue,      \* the mpsc channel: events sent by the callback, not yet received
    arrived,    \* every raw message the transport delivered to the callback, in order
    pc,         \* the consumer's position: "idle", or "draining" inside poll
    events,     \* poll's local Vec<MidiEvent> while it collects try_iter()
    result,     \* what the most recent poll returned (Option<Vec<MidiEvent>>)
    delivered,  \* the events of every Some(..) poll returned so far, concatenated
    snap,       \* the channel's content when the most recent poll was entered
    raced       \* whether the callback ran since the most recent poll was entered

vars == <<call, sent, queue, arrived, pc, events, result, delivered, snap, raced>>
encoderVars == <<call, sent>>
queueVars == <<queue, arrived, pc, events, result, delivered, snap, raced>>

---------------------------------------------------------------------------
(* Bounds of the model. *)

\* The transport may fail the k-th send of a call, k in 1..MaxFailAt (0: never).
MaxFailAt == 2
\* Batches are tried up to this many entries past the protocol maximum.
MaxOver == 2
\* Short batches are tried up to this length.
MaxShort == 3
\* The transport delivers at most this many raw messages.
MaxArrivals == 3
\* scroll_text is tried on texts of up to this many characters.
MaxText == 2

(* Program constants. *)
MAX_LEDS == 80
MAX_COLUMNS == 9
MAX_ROWS == 9
GRID_LEN == 64
TOP_LEN == 8
RIGHT_LEN == 8

U8 == 0..255

---------------------------------------------------------------------------
(* Control flow of one call: a run is the frames handed to the output so   *)
(* far and "ok", or the panic that ended the call.                         *)

Start == [sent |-> <<>>, result |-> "ok"]

Ok(r) == r.result = "ok"

\* A statement that may panic: `outcome` is "ok" or the panic's message.
\* After a panic nothing further of the call runs.
Check(r, outcome) ==
    IF Ok(r) /\ outcome # "ok" THEN [r EXCEPT !.result = outcome] ELSE r

\* self.0.send(message).unwrap(): the frame is handed to output_port.send;
\* the transport fails the failAt-th send of the call, and unwrap panics.
send(r, message, failAt) ==
    IF ~Ok(r) THEN r
    ELSE LET s == Append(r.sent, message)
         IN  [sent |-> s,
              result |-> IF Len(s) = failAt THEN "SendError" ELSE "ok"]

---------------------------------------------------------------------------
(* Validators. Each gives "ok" or the message of its panic. *)

\* assert_position with the top row's range one too wide.
assert_position_mut(pos) ==
    IF ~( CASE pos \in 11..19 -> TRUE
            [] pos \in 21..29 -> TRUE
            [] pos \in 31..39 -> TRUE
            [] pos \in 41..49 -> TRUE
            [] pos \in 51..59 -> TRUE
            [] pos \in 61..69 -> TRUE
            [] pos \in 71..79 -> TRUE
            [] pos \in 81..89 -> TRUE
            [] pos \in 104..112 -> TRUE
            [] OTHER -> FALSE )
    THEN "Bad Positon!" ELSE "ok"

assert_position(pos) ==
    IF ~( CASE pos \in 11..19 -> TRUE
            [] pos \in 21..29 -> TRUE
            [] pos \in 31..39 -> TRUE
            [] pos \in 41..49 -> TRUE
            [] pos \in 51..59 -> TRUE
            [] pos \in 61..69 -> TRUE
            [] pos \in 71..79 -> TRUE
            [] pos \in 81..89 -> TRUE
            [] pos \in 104..111 -> TRUE
            [] OTHER -> FALSE )
    THEN "Bad Positon!" ELSE "ok"

assert_color(clr) == IF clr > 127 THEN "Bad Color!" ELSE "ok"

assert_column(col) == IF col > 8 THEN "Bad Column" ELSE "ok"

assert_row(row) == IF row > 8 THEN "Bad Row" ELSE "ok"

---------------------------------------------------------------------------
(* LaunchpadMk2: the encoders. Each gives the run of the whole call. *)

Mk2_light_all(color, failAt) ==
    LET r1 == Check(Start, assert_color(color))
    IN  send(r1, <<\hF0, \h00, \h20, \h29, \h02, \h18, \h0E, color, \hF7>>, failAt)

flash_single(led, failAt) ==
    LET r1 == Check(Start, assert_position(led.position))
        r2 == Check(r1, assert_color(led.color))
    IN  send(r2, <<\h91, led.position, led.color>>, failAt)

pulse_single(led, failAt) ==
    send(Start, <<\h92, led.position, led.color>>, failAt)

RECURSIVE light_leds_loop(_, _, _, _)
light_leds_loop(r, leds, i, failAt) ==
    IF i > Len(leds) \/ ~Ok(r) THEN r
    ELSE LET led == leds[i]
             r1 == Check(r, assert_position(led.position))
             r2 == Check(r1, assert_color(led.color))
             r3 == send(r2, <<\hF0, \h00, \h20, \h29, \h02, \h18, \h0A,
                              led.position, led.color, \hF7>>, failAt)
         IN  light_leds_loop(r3, leds, i + 1, failAt)

\* light_leds with the length assertion after the loop.
light_leds_mut(leds, failAt) ==
    LET r1 == light_leds_loop(Start, leds, 1, failAt)
    IN  Check(r1, IF Len(leds) <= MAX_LEDS THEN "ok"
                  ELSE "assertion failed: leds.len() <= 80")

light_leds(leds, failAt) ==
    LET r1 == Check(Start, IF Len(leds) <= MAX_LEDS THEN "ok"
                           ELSE "assertion failed: leds.len() <= 80")
    IN  light_leds_loop(r1, leds, 1, failAt)

light_led(led, failAt) == light_leds(<<led>>, failAt)

RECURSIVE light_columns_loop(_, _, _, _)
light_columns_loop(r, cols, i, failAt) ==
    IF i > Len(cols) \/ ~Ok(r) THEN r
    ELSE LET col == cols[i]
             r1 == Check(r, assert_column(col.column))
             r2 == Check(r1, assert_color(col.color))
             r3 == send(r2, <<\hF0, \h00, \h20, \h29, \h02, \h18, \h0C,
                              col.column, col.color, \hF7>>, failAt)
         IN  light_columns_loop(r3, cols, i + 1, failAt)

light_columns(cols, failAt) ==
    LET r1 == Check(Start, IF Len(cols) <= MAX_COLUMNS THEN "ok"
                           ELSE "assertion failed: cols.len() <= 9")
    IN  light_columns_loop(r1, cols, 1, failAt)

light_column(col, failAt) == light_columns(<<col>>, failAt)

RECURSIVE light_rows_loop(_, _, _, _)
light_rows_loop(r, rows, i, failAt) ==
    IF i > Len(rows) \/ ~Ok(r) THEN r
    ELSE LET row == rows[i]
             r1 == Check(r, assert_row(row.row))
             r2 == Check(r1, assert_color(row.color))
             r3 == send(r2, <<\hF0, \h00, \h20, \h29, \h02, \h18, \h0D,
                              row.row, row.color, \hF7>>, failAt)
         IN  light_rows_loop(r3, rows, i + 1, failAt)

light_rows(rows, failAt) ==
    LET r1 == Check(Start, IF Len(rows) <= MAX_ROWS THEN "ok"
                           ELSE "assertion failed: rows.len() <= 9")
    IN  light_rows_loop(r1, rows, 1, failAt)

light_row(row, failAt) == light_rows(<<row>>, failAt)

\* str::as_bytes: the UTF-8 encoding of the text, one to four bytes per char.
utf8(c) ==
    IF c < \h80 THEN <<c>>
    ELSE IF c < \h800 THEN <<\hC0 + (c \div 64), \h80 + (c % 64)>>
    ELSE IF c < \h10000 THEN
        <<\hE0 + (c \div 4096), \h80 + ((c \div 64) % 64), \h80 + (c % 64)>>
    ELSE <<\hF0 + (c \div 262144), \h80 + ((c \div 4096) % 64),
           \h80 + ((c \div 64) % 64), \h80 + (c % 64)>>

RECURSIVE as_bytes(_)
as_bytes(text) ==
    IF text = <<>> THEN <<>> ELSE utf8(Head(text)) \o as_bytes(Tail(text))

\* scroll_text with the loop flag before the color.
scroll_text_mut(color, doloop, text, failAt) ==
    LET r1 == Check(Start, assert_color(color))
        msg0 == <<\hF0, \h00, \h20, \h29, \h02, \h18, \h14,
                  IF doloop THEN \h01 ELSE \h00, color>>
        msg1 == msg0 \o as_bytes(text)
        msg2 == Append(msg1, \hF7)
    IN  send(r1, msg2, failAt)

scroll_text(color, doloop, text, failAt) ==
    LET r1 == Check(Start, assert_color(color))
        msg0 == <<\hF0, \h00, \h20, \h29, \h02, \h18, \h14,
                  color, IF doloop THEN \h01 ELSE \h00>>
        msg1 == msg0 \o as_bytes(text)
        msg2 == Append(msg1, \hF7)
    IN  send(r1, msg2, failAt)

\* color::nearest_palette: the palette colors it may return for an RGB triple.
nearest_palette(red, green, blue) == 0..127

light_fuzzy_rgb(position, color, failAt) ==
    light_led([position |-> position, color |-> color], failAt)

---------------------------------------------------------------------------
(* Launchpad (Mk 1 / Mini / S): the encoders. *)

reset(failAt) == send(Start, <<\hB0, \h00, \h00>>, failAt)

\* GridMappingMode as its #[repr(u8)] discriminant.
GridMappingMode == [XYLayout |-> 1, DrumRackLayout |-> 2]

set_grid_mapping_mode(mode, failAt) ==
    send(Start, <<\hB0, \h00, GridMappingMode[mode]>>, failAt)

b2u(b) == IF b THEN 1 ELSE 0

\* The four flags occupy distinct bits of 0b0100000, so `|` adds them.
ctrl_double_buffer_display_update_flash_copy(display, update, flash, copy, failAt) ==
    LET flags == 32 + b2u(display) * 1 + b2u(update) * 4
                    + b2u(flash) * 8 + b2u(copy) * 16
    IN  send(Start, <<\hB0, \h00, flags>>, failAt)

\* Brightness as its #[repr(u8)] discriminant.
Brightness == [Low |-> 125, Medium |-> 126, High |-> 127]

Mk1_light_all(brightness, failAt) ==
    send(Start, <<\hB0, \h00, Brightness[brightness]>>, failAt)

light_top(column, data, failAt) ==
    LET r1 == Check(Start, IF column < 8 THEN "ok"
                           ELSE "assertion failed: column < 8")
        r2 == Check(r1, IF data < 128 THEN "ok"
                        ELSE "assertion failed: data < 128")
    IN  send(r2, <<\hB0, \h68 + column, data>>, failAt)

\* for ab in s.chunks_exact(2) { send(&[0x92, ab[0], ab[1]]) }, from chunk k on;
\* chunks_exact leaves out a last byte that fills no pair.
RECURSIVE send_chunks(_, _, _, _)
send_chunks(r, s, k, failAt) ==
    IF k > Len(s) \div 2 \/ ~Ok(r) THEN r
    ELSE send_chunks(send(r, <<\h92, s[2 * k - 1], s[2 * k]>>, failAt),
                     s, k + 1, failAt)

\* light_grid sending top before grid.
light_grid_mut(grid, top, right, failAt) ==
    LET r0 == send(Start, <<\hB0, \h68 + 8, 0>>, failAt)
        r1 == Check(r0, IF Len(grid) = GRID_LEN THEN "ok"
                        ELSE "assertion failed: grid.len() == 8*8")
        r2 == Check(r1, IF Len(top) = TOP_LEN THEN "ok"
                        ELSE "assertion failed: top.len() == 8")
        r3 == Check(r2, IF Len(right) = RIGHT_LEN THEN "ok"
                        ELSE "assertion failed: right.len() == 8")
        r4 == send_chunks(r3, top, 1, failAt)
        r5 == send_chunks(r4, grid, 1, failAt)
    IN  send_chunks(r5, right, 1, failAt)

light_grid(grid, top, right, failAt) ==
    LET r0 == send(Start, <<\hB0, \h68 + 8, 0>>, failAt)
        r1 == Check(r0, IF Len(grid) = GRID_LEN THEN "ok"
                        ELSE "assertion failed: grid.len() == 8*8")
        r2 == Check(r1, IF Len(top) = TOP_LEN THEN "ok"
                        ELSE "assertion failed: top.len() == 8")
        r3 == Check(r2, IF Len(right) = RIGHT_LEN THEN "ok"
                        ELSE "assertion failed: right.len() == 8")
        r4 == send_chunks(r3, grid, 1, failAt)
        r5 == send_chunks(r4, top, 1, failAt)
    IN  send_chunks(r5, right, 1, failAt)

---------------------------------------------------------------------------
(* The arguments the calls are tried on. *)

FailAts == 0..MaxFailAt
\* A call that sends one frame can only fail at its first send.
FailFirst == {0, 1}

\* Positions at every edge of the valid bands, and colors at the edge of 0..127.
PositionSamples == {0, 10, 11, 20, 89, 90, 103, 104, 111, 112, 255}
ColorSamples == {0, 127, 128, 255}
IndexSamples == {0, 8, 9, 255}

ColorLed == [position : PositionSamples, color : ColorSamples]
ColorColumn == [column : IndexSamples, color : ColorSamples]
ColorRow == [row : IndexSamples, color : ColorSamples]

\* A batch of n entries, all `fill` but the k-th, which is `odd`.
Batch(n, k, fill, odd) == [i \in 1..n |-> IF i = k THEN odd ELSE fill]

\* Batch lengths: short ones, and those around the protocol maximum.
Lens(max) == (0..MaxShort) \cup ((max - 1)..(max + MaxOver))

Batches(max, fills, odds) ==
    {Batch(n, k, fill, odd) :
        n \in Lens(max), k \in {1, 2, max, max + 1}, fill \in fills, odd \in odds}

LedBatches ==
    Batches(MAX_LEDS, {[position |-> 11, color |-> 5]},
            [position : {19, 20, 111}, color : {127, 128}])
ColumnBatches ==
    Batches(MAX_COLUMNS, {[column |-> 0, color |-> 5]},
            [column : {8, 9}, color : {127, 128}])
RowBatches ==
    Batches(MAX_ROWS, {[row |-> 0, color |-> 5]},
            [row : {8, 9}, color : {127, 128}])

\* Texts: the ASCII letters A and B, the speed byte 0x01, and a two-byte char.
CharSamples == {\h01, \h41, \h42, \hE9}
Texts == UNION {[1..n -> CharSamples] : n \in 0..MaxText}

\* main.rs fills a buffer from a Wrapping<u8> counter: each byte is
\* local_color.0 & 0x7F, and the counter goes up by one.
Ramp(n, local_color) ==
    [i \in 1..n |-> ((local_color + i - 1) % 256) % 128]

\* The buffers of one round of run_mk1's "Grid colors!" loop: one counter runs
\* from `color` through top, then grid, then right.
MainFill(gl, tl, rl, color) ==
    [top |-> Ramp(tl, color),
     grid |-> Ramp(gl, color + tl),
     right |-> Ramp(rl, color + tl + gl)]

\* Slices of any bytes, those above 127 included: n bytes counting up from
\* `first`.
Bytes(n, first) == [i \in 1..n |-> (first + i - 1) % 256]

ByteFill(gl, tl, rl, first) ==
    [top |-> Bytes(tl, first + 100),
     grid |-> Bytes(gl, first),
     right |-> Bytes(rl, first + 150)]

---------------------------------------------------------------------------
(* State. *)

None == [some |-> FALSE, events |-> <<>>]
Some(v) == [some |-> TRUE, events |-> v]

InitEncoder ==
    /\ call = [op |-> "none", result |-> "ok", failAt |-> 0]
    /\ sent = <<>>

InitQueue ==
    /\ queue = <<>>
    /\ arrived = <<>>
    /\ pc = "idle"
    /\ events = <<>>
    /\ result = None
    /\ delivered = <<>>
    /\ snap = <<>>
    /\ raced = FALSE

Init == InitEncoder /\ InitQueue

---------------------------------------------------------------------------
(* LaunchpadMk2: one action per method. *)

LightAllMk2 ==
    \E color \in ColorSamples, f \in FailFirst :
        LET r == Mk2_light_all(color, f)
        IN  /\ call.op = "none"
            /\ call' = [op |-> "light_all", color |-> color,
                        failAt |-> f, result |-> r.result]
            /\ sent' = r.sent
            /\ UNCHANGED queueVars

FlashSingle ==
    \E position \in U8, color \in {5, 128}, f \in FailFirst :
        LET led == [position |-> position, color |-> color]
        IN  LET r == flash_single(led, f)
            IN  /\ call.op = "none"
                /\ call' = [op |-> "flash_single", led |-> led,
                            failAt |-> f, result |-> r.result]
                /\ sent' = r.sent
                /\ UNCHANGED queueVars

PulseSingle ==
    \E led \in ColorLed, f \in FailFirst :
        LET r == pulse_single(led, f)
        IN  /\ call.op = "none"
            /\ call' = [op |-> "pulse_single", led |-> led,
                        failAt |-> f, result |-> r.result]
            /\ sent' = r.sent
            /\ UNCHANGED queueVars

LightLed ==
    \E led \in ColorLed, f \in FailFirst :
        LET r == light_led(led, f)
        IN  /\ call.op = "none"
            /\ call' = [op |-> "light_led", led |-> led,
                        failAt |-> f, result |-> r.result]
            /\ sent' = r.sent
            /\ UNCHANGED queueVars

LightLeds ==
    \E leds \in LedBatches, f \in FailAts :
        LET r == light_leds(leds, f)
        IN  /\ call.op = "none"
            /\ call' = [op |-> "light_leds", leds |-> leds,
                        failAt |-> f, result |-> r.result]
            /\ sent' = r.sent
            /\ UNCHANGED queueVars

LightColumn ==
    \E col \in ColorColumn, f \in FailFirst :
        LET r == light_column(col, f)
        IN  /\ call.op = "none"
            /\ call' = [op |-> "light_column", col |-> col,
                        failAt |-> f, result |-> r.result]
            /\ sent' = r.sent
            /\ UNCHANGED queueVars

LightColumns ==
    \E cols \in ColumnBatches, f \in FailAts :
        LET r == light_columns(cols, f)
        IN  /\ call.op = "none"
            /\ call' = [op |-> "light_columns", cols |-> cols,
                        failAt |-> f, result |-> r.result]
            /\ sent' = r.sent
            /\ UNCHANGED queueVars

LightRow ==
    \E row \in ColorRow, f \in FailFirst :
        LET r == light_row(row, f)
        IN  /\ call.op = "none"
            /\ call' = [op |-> "light_row", row |-> row,
                        failAt |-> f, result |-> r.result]
            /\ sent' = r.sent
            /\ UNCHANGED queueVars

LightRows ==
    \E rows \in RowBatches, f \in FailAts :
        LET r == light_rows(rows, f)
        IN  /\ call.op = "none"
            /\ call' = [op |-> "light_rows", rows |-> rows,
                        failAt |-> f, result |-> r.result]
            /\ sent' = r.sent
            /\ UNCHANGED queueVars

ScrollText ==
    \E color \in {5, 127, 128}, doloop \in BOOLEAN, text \in Texts, f \in FailFirst :
        LET r == scroll_text(color, doloop, text, f)
        IN  /\ call.op = "none"
            /\ call' = [op |-> "scroll_text", color |-> color, doloop |-> doloop, text |-> text,
                        failAt |-> f, result |-> r.result]
            /\ sent' = r.sent
            /\ UNCHANGED queueVars

LightFuzzyRgb ==
    \E position \in {11, 20}, rgb \in {<<255, 128, 1>>}, f \in FailFirst :
        \E color \in nearest_palette(rgb[1], rgb[2], rgb[3]) :
            LET r == light_fuzzy_rgb(position, color, f)
            IN  /\ call.op = "none"
                /\ call' = [op |-> "light_fuzzy_rgb", position |-> position, rgb |-> rgb, color |-> color,
                            failAt |-> f, result |-> r.result]
                /\ sent' = r.sent
                /\ UNCHANGED queueVars

\* The encoders keep no state between calls: once the caller has the outcome
\* of a call, the next call starts as the first did.
Forget ==
    /\ call.op # "none"
    /\ call' = [op |-> "none", result |-> "ok", failAt |-> 0]
    /\ sent' = <<>>
    /\ UNCHANGED queueVars

NextMk2 ==
    \/ Forget
    \/ LightAllMk2
    \/ FlashSingle
    \/ PulseSingle
    \/ LightLed
    \/ LightLeds
    \/ LightColumn
    \/ LightColumns
    \/ LightRow
    \/ LightRows
    \/ ScrollText
    \/ LightFuzzyRgb

SpecMk2 == Init /\ [][NextMk2]_vars

---------------------------------------------------------------------------
(* Launchpad (Mk 1): one action per method. *)

Reset ==
    \E f \in FailAts :
        LET r == reset(f)
        IN  /\ call.op = "none"
            /\ call' = [op |-> "reset", failAt |-> f, result |-> r.result]
            /\ sent' = r.sent
            /\ UNCHANGED queueVars

SetGridMappingMode ==
    \E mode \in DOMAIN GridMappingMode, f \in FailAts :
        LET r == set_grid_mapping_mode(mode, f)
        IN  /\ call.op = "none"
            /\ call' = [op |-> "set_grid_mapping_mode", mode |-> mode,
                        failAt |-> f, result |-> r.result]
            /\ sent' = r.sent
            /\ UNCHANGED queueVars

CtrlDoubleBuffer ==
    \E display \in BOOLEAN, update \in BOOLEAN, flash \in BOOLEAN,
       copy \in BOOLEAN, f \in FailAts :
        LET r == ctrl_double_buffer_display_update_flash_copy(display, update, flash, copy, f)
        IN  /\ call.op = "none"
            /\ call' = [op |-> "ctrl_double_buffer", flags |-> <<display, update, flash, copy>>,
                        failAt |-> f, result |-> r.result]
            /\ sent' = r.sent
            /\ UNCHANGED queueVars

LightAllMk1 ==
    \E brightness \in DOMAIN Brightness, f \in FailAts :
        LET r == Mk1_light_all(brightness, f)
        IN  /\ call.op = "none"
            /\ call' = [op |-> "light_all", brightness |-> brightness,
                        failAt |-> f, result |-> r.result]
            /\ sent' = r.sent
            /\ UNCHANGED queueVars

LightTop ==
    \E column \in {0, 7, 8, 255}, data \in {0, 127, 128, 255}, f \in FailAts :
        LET r == light_top(column, data, f)
        IN  /\ call.op = "none"
            /\ call' = [op |-> "light_top", column |-> column, data |-> data,
                        failAt |-> f, result |-> r.result]
            /\ sent' = r.sent
            /\ UNCHANGED queueVars

LightGrid ==
    \E gl \in (0..MaxShort) \cup ((GRID_LEN - 1)..(GRID_LEN + MaxOver)),
       tl \in {0} \cup ((TOP_LEN - 1)..(TOP_LEN + MaxOver)),
       rl \in {0} \cup ((RIGHT_LEN - 1)..(RIGHT_LEN + MaxOver)),
       color \in {0, 49, 64}, f \in FailAts :
      \E args \in {MainFill(gl, tl, rl, color), ByteFill(gl, tl, rl, color)} :
        LET grid == args.grid
            top == args.top
            right == args.right
        IN  LET r == light_grid(grid, top, right, f)
            IN  /\ call.op = "none"
                /\ call' = [op |-> "light_grid", grid |-> grid, top |-> top, right |-> right,
                            failAt |-> f, result |-> r.result]
                /\ sent' = r.sent
                /\ UNCHANGED queueVars

NextMk1 ==
    \/ Forget
    \/ Reset
    \/ SetGridMappingMode
    \/ CtrlDoubleBuffer
    \/ LightAllMk1
    \/ LightTop
    \/ LightGrid

SpecMk1 == Init /\ [][NextMk1]_vars

---------------------------------------------------------------------------
(* LaunchpadInternal: the input callback and poll, on the two sides of the  *)
(* mpsc channel. One channel operation (send, try_recv) is one step.        *)

\* A u64 is four 16-bit limbs, least significant first; a u32 is two.
\* `time as u32` keeps the low 32 bits.
as_u32(time) == <<time[1], time[2]>>

MidiEvent(timestamp, status, data1, data2) ==
    [timestamp |-> timestamp,
     message |-> [status |-> status, data1 |-> data1, data2 |-> data2]]

\* Delivery times: a small one, and one past the range of a u32.
TimeSamples == {<<1, 0, 0, 0>>, <<2, 0, 1, 0>>}

\* Raw messages of 0, 1, 2, 3 and 4 bytes.
MsgSamples ==
    {<<>>, <<\hF8>>, <<\h90, 11>>, <<\h90, 11, 127>>, <<\h80, 11, 0>>,
     <<\hF0, \h7E, \h7F, \hF7>>}

\* The callback taking every message of two bytes or more.
input_callback_mut(time, msg) ==
    /\ Len(arrived) < MaxArrivals
    /\ arrived' = Append(arrived, [time |-> time, msg |-> msg])
    /\ queue' =
        IF Len(msg) >= 2
        THEN Append(queue, MidiEvent(as_u32(time), msg[1], msg[2],
                                     IF Len(msg) >= 3 THEN msg[3] ELSE 0))
        ELSE queue
    /\ raced' = TRUE
    /\ UNCHANGED <<call, sent, pc, events, result, delivered, snap>>

\* The closure given to input.connect: a message of exactly three bytes is
\* sent into the channel with its time; any other is ignored.
input_callback(time, msg) ==
    /\ Len(arrived) < MaxArrivals
    /\ arrived' = Append(arrived, [time |-> time, msg |-> msg])
    /\ queue' =
        IF Len(msg) = 3
        THEN Append(queue, MidiEvent(as_u32(time), msg[1], msg[2], msg[3]))
        ELSE queue
    /\ raced' = TRUE
    /\ UNCHANGED <<call, sent, pc, events, result, delivered, snap>>

Callback == \E time \in TimeSamples, msg \in MsgSamples : input_callback(time, msg)

\* poll is entered: try_iter() starts with nothing collected.
poll_enter ==
    /\ pc = "idle"
    /\ pc' = "draining"
    /\ events' = <<>>
    /\ snap' = queue
    /\ raced' = FALSE
    /\ UNCHANGED <<call, sent, queue, arrived, result, delivered>>

\* try_recv collecting at the front.
poll_try_recv_mut ==
    /\ pc = "draining"
    /\ queue # <<>>
    /\ events' = <<Head(queue)>> \o events
    /\ queue' = Tail(queue)
    /\ UNCHANGED <<call, sent, arrived, pc, result, delivered, snap, raced>>

\* try_iter().next() finds an event: it is taken from the channel and collected.
poll_try_recv ==
    /\ pc = "draining"
    /\ queue # <<>>
    /\ events' = Append(events, Head(queue))
    /\ queue' = Tail(queue)
    /\ UNCHANGED <<call, sent, arrived, pc, result, delivered, snap, raced>>

\* poll returning Some of an empty Vec.
poll_return_mut ==
    /\ pc = "draining"
    /\ queue = <<>>
    /\ result' = Some(events)
    /\ delivered' = delivered \o events
    /\ events' = <<>>
    /\ pc' = "idle"
    /\ UNCHANGED <<call, sent, queue, arrived, snap, raced>>

\* try_iter().next() finds the channel empty: collect() ends and poll returns
\* None for an empty Vec, Some(events) otherwise.
poll_return ==
    /\ pc = "draining"
    /\ queue = <<>>
    /\ result' = IF events = <<>> THEN None ELSE Some(events)
    /\ delivered' = delivered \o events
    /\ events' = <<>>
    /\ pc' = "idle"
    /\ UNCHANGED <<call, sent, queue, arrived, snap, raced>>

NextQueue ==
    \/ Callback
    \/ poll_enter
    \/ poll_try_recv
    \/ poll_return

SpecQueue == Init /\ [][NextQueue]_vars

---------------------------------------------------------------------------
(* What the documentation says of the arguments. *)

\* The documented LED positions: rows 1-8 by columns 1-9, and the top row.
ValidPositions == {10 * row + col : row \in 1..8, col \in 1..9} \cup (104..111)

LedIsValid(led) == led.position \in ValidPositions /\ led.color <= 127
ColumnIsValid(col) == col.column <= 8 /\ col.color <= 127
RowIsValid(row) == row.row <= 8 /\ row.color <= 127

\* The call failed on an argument: it panicked, and not on a failed send.
InvalidArgument == call.result \notin {"ok", "SendError"}

SysEx(f) == Len(f) >= 9 /\ SubSeq(f, 1, 6) = <<\hF0, \h00, \h20, \h29, \h02, \h18>>

\* A Generation B frame carries only values the device documents.
FrameIsValid(f) ==
    IF Len(f) = 3 THEN f[2] \in ValidPositions /\ f[3] <= 127
    ELSE /\ SysEx(f)
         /\ CASE f[7] = \h0E -> f[8] <= 127
              [] f[7] = \h0A -> f[8] \in ValidPositions /\ f[9] <= 127
              [] f[7] = \h0C -> f[8] <= 8 /\ f[9] <= 127
              [] f[7] = \h0D -> f[8] <= 8 /\ f[9] <= 127
              [] f[7] = \h14 -> f[8] <= 127
              [] OTHER -> FALSE

\* The most recent call was given an argument out of its documented range.
ArgumentOutOfRange ==
    CASE call.op = "light_all" -> call.color > 127
      [] call.op = "scroll_text" -> call.color > 127
      [] call.op \in {"flash_single", "pulse_single", "light_led"} ->
            ~LedIsValid(call.led)
      [] call.op = "light_fuzzy_rgb" -> call.position \notin ValidPositions
      [] call.op = "light_leds" ->
            \E i \in 1..Len(call.leds) : ~LedIsValid(call.leds[i])
      [] call.op = "light_column" -> ~ColumnIsValid(call.col)
      [] call.op = "light_columns" ->
            \E i \in 1..Len(call.cols) : ~ColumnIsValid(call.cols[i])
      [] call.op = "light_row" -> ~RowIsValid(call.row)
      [] call.op = "light_rows" ->
            \E i \in 1..Len(call.rows) : ~RowIsValid(call.rows[i])
      [] OTHER -> FALSE

---------------------------------------------------------------------------
(* Claims about LaunchpadMk2, under SpecMk2. *)

\* C1: a light_leds, light_columns or light_rows batch with an invalid entry,
\* wherever it stands, fails and hands no frame at all to the output.
C1_BatchIsAtomic ==
    (call.op \in {"light_leds", "light_columns", "light_rows"} /\ ArgumentOutOfRange)
        => (call.result # "ok" /\ sent = <<>>)

\* C3: every frame handed to the output carries a color <= 127, a documented
\* position and a row or column index <= 8, and a call with an argument out
\* of range hands nothing to the output.
C3_OnlyValidFrames ==
    /\ \A i \in 1..Len(sent) : FrameIsValid(sent[i])
    /\ (ArgumentOutOfRange => sent = <<>>)

\* C4: a batch longer than the protocol maximum (80 LEDs, 9 columns, 9 rows)
\* fails on its length and hands no frame to the output, whatever it holds.
C4_LongBatchRejected ==
    (\/ call.op = "light_leds" /\ Len(call.leds) > 80
     \/ call.op = "light_columns" /\ Len(call.cols) > 9
     \/ call.op = "light_rows" /\ Len(call.rows) > 9)
        => (InvalidArgument /\ sent = <<>>)

C4_Witness ==
    /\ call.op = "light_leds"
    /\ Len(call.leds) = 81
    /\ \A i \in 1..81 : LedIsValid(call.leds[i])
    /\ call.result = "assertion failed: leds.len() <= 80"
    /\ sent = <<>>

\* C8: the position validator accepts exactly the documented positions, for
\* every 8-bit value: flash_single with a valid color and a working transport
\* succeeds on them and panics with "Bad Positon!" on every other value.
C8_PositionValidator ==
    (call.op = "flash_single" /\ call.led.color <= 127 /\ call.failAt = 0)
        => /\ call.led.position \in ValidPositions => call.result = "ok"
           /\ call.led.position \notin ValidPositions =>
                (call.result = "Bad Positon!" /\ sent = <<>>)

C8_Witness ==
    /\ call.op = "flash_single"
    /\ call.led = [position |-> 111, color |-> 5]
    /\ call.failAt = 0
    /\ call.result = "ok"
    /\ sent = <<(<<\h91, 111, 5>>)>>

\* The bytes of a text of the sampled chars: ASCII chars are their own byte,
\* U+00E9 is C3 A9.
RECURSIVE TextBytes(_)
TextBytes(text) ==
    IF text = <<>> THEN <<>>
    ELSE (IF Head(text) = \hE9 THEN <<\hC3, \hA9>> ELSE <<Head(text)>>)
         \o TextBytes(Tail(text))

\* C9: scroll_text with a color <= 127 hands exactly one frame to the output:
\* F0 00 20 29 02 18 14, the color, 01 for loop and 00 otherwise, the bytes of
\* the text in order, F7.
C9_ScrollTextFrame ==
    (call.op = "scroll_text" /\ call.color <= 127)
        => /\ Len(sent) = 1
           /\ sent[1] = <<\hF0, \h00, \h20, \h29, \h02, \h18, \h14>>
                        \o <<call.color, IF call.doloop THEN 1 ELSE 0>>
                        \o TextBytes(call.text)
                        \o <<\hF7>>

C9_Witness ==
    /\ call.op = "scroll_text"
    /\ call.color = 5 /\ ~call.doloop /\ call.text = <<\h41, \h42>>
    /\ call.result = "ok"
    /\ sent = <<(<<\hF0, \h00, \h20, \h29, \h02, \h18, \h14, \h05, \h00,
                  \h41, \h42, \hF7>>)>>

---------------------------------------------------------------------------
(* Claims about Launchpad (Mk 1), under SpecMk1. *)

\* C2: light_grid with a grid not of 64 bytes, or a top or right not of 8,
\* fails on its arguments before any frame, the cursor reset included, is
\* handed to the output.
C2_GridLengthsFirst ==
    (/\ call.op = "light_grid"
     /\ (Len(call.grid) # 64 \/ Len(call.top) # 8 \/ Len(call.right) # 8))
        => (InvalidArgument /\ sent = <<>>)

\* C10: a light_grid that succeeds hands to the output the cursor reset and
\* then 40 frames 92 a b, (a, b) running over the consecutive pairs of
\* grid, then top, then right.
C10_GridFrames ==
    (call.op = "light_grid" /\ call.result = "ok")
        => LET all == call.grid \o call.top \o call.right
           IN  /\ Len(call.grid) = 64 /\ Len(call.top) = 8 /\ Len(call.right) = 8
               /\ Len(sent) = 41
               /\ sent[1] = <<\hB0, \h70, \h00>>
               /\ \A k \in 1..40 : sent[k + 1] = <<\h92, all[2 * k - 1], all[2 * k]>>

C10_Witness ==
    /\ call.op = "light_grid"
    /\ call.result = "ok"
    /\ Len(sent) = 41
    /\ sent[2] = <<\h92, 57, 58>>
    /\ sent[34] = <<\h92, 49, 50>>
    /\ sent[41] = <<\h92, 127, 0>>

---------------------------------------------------------------------------
(* Claims about the event channel, under SpecQueue. *)

RECURSIVE Messages(_)
\* The messages of a sequence of events.
Messages(evs) ==
    IF evs = <<>> THEN <<>> ELSE <<Head(evs).message>> \o Messages(Tail(evs))

RECURSIVE ThreeByteMessages(_)
\* The three-byte messages among the raw messages delivered, in arrival order.
ThreeByteMessages(raw) ==
    IF raw = <<>> THEN <<>>
    ELSE LET m == Head(raw).msg
         IN  (IF Len(m) = 3
              THEN <<[status |-> m[1], data1 |-> m[2], data2 |-> m[3]]>>
              ELSE <<>>)
             \o ThreeByteMessages(Tail(raw))

\* C5: no event is lost, duplicated or reordered. What poll has returned so
\* far, then what a poll in progress has already taken (nothing when no poll
\* is in progress), then what is still queued, is the three-byte messages in
\* arrival order.
C5_NoLossNoReorder ==
    /\ Messages(delivered \o events \o queue) = ThreeByteMessages(arrived)
    /\ pc = "idle" => events = <<>>

C5_Witness ==
    /\ Len(delivered) = 1
    /\ Len(events) = 1
    /\ Len(queue) = 1
    /\ raced
    /\ delivered[1].message # events[1].message

\* C6: poll never returns an empty batch; a poll during which nothing arrived
\* returns exactly what was queued when it was entered, in order, or None
\* if nothing was, and leaves the queue empty.
C6_PollDrains ==
    /\ result.some => result.events # <<>>
    /\ (pc = "idle" /\ ~raced)
        => /\ queue = <<>>
           /\ result = IF snap = <<>> THEN None ELSE Some(snap)

C6_Witness ==
    /\ pc = "idle" /\ ~raced
    /\ Len(snap) = 3
    /\ snap[1] # snap[2] /\ snap[2] # snap[3]
    /\ result = Some(snap)
    /\ queue = <<>>

\* C7: a raw message not of three bytes is dropped: its delivery changes
\* nothing but the record of deliveries, and the channel and the poll results
\* only ever hold three-byte messages that arrived.
C7_OtherLengthsDropped ==
    /\ [][(arrived' # arrived /\ Len(arrived'[Len(arrived')].msg) # 3)
            => UNCHANGED <<queue, events, result, delivered, pc>>]_vars
    /\ [](\A e \in {(delivered \o events \o queue)[i] :
                        i \in 1..Len(delivered \o events \o queue)} :
            \E i \in 1..Len(arrived) :
                /\ Len(arrived[i].msg) = 3
                /\ e.message = [status |-> arrived[i].msg[1],
                                data1 |-> arrived[i].msg[2],
                                data2 |-> arrived[i].msg[3]])

C7_Witness ==
    /\ Len(arrived) = 3
    /\ Len(arrived[1].msg) = 3
    /\ Len(arrived[2].msg) = 2
    /\ Len(arrived[3].msg) = 4
    /\ Len(queue) = 1
    /\ delivered = <<>>

---------------------------------------------------------------------------
(* Claims about a failing transport, under SpecMk2. *)

\* The transport reported a failure during the most recent call: the send it
\* fails was reached.
TransportFailed == call.op # "none" /\ call.failAt \in 1..Len(sent)

\* Every encoder method returns (): a call has either run to its end or
\* panicked.
Panicked == call.op # "none" /\ call.result # "ok"

\* C11: when the transport fails a send, also in the middle of a batch, the
\* call gives the failure to its caller as an error value it can recover
\* from (it does not panic), and the queued events are as they were.
C11_SendFailureIsRecoverable ==
    TransportFailed => (~Panicked /\ queue = <<>> /\ pc = "idle")

---------------------------------------------------------------------------
(* Claims about the timestamp, under SpecQueue. *)

RECURSIVE ThreeByteArrivals(_)
\* The deliveries of three-byte messages, in arrival order.
ThreeByteArrivals(raw) ==
    IF raw = <<>> THEN <<>>
    ELSE (IF Len(Head(raw).msg) = 3 THEN <<Head(raw)>> ELSE <<>>)
         \o ThreeByteArrivals(Tail(raw))

\* A u32 as the u64 of the same value.
AsU64(timestamp) == timestamp \o <<0, 0>>

\* C12: the event made of a three-byte message delivered at time t carries t
\* in its timestamp, for every 64-bit t, and the three bytes unchanged.
C12_TimestampKept ==
    LET evs == delivered \o events \o queue
        raw == ThreeByteArrivals(arrived)
    IN  /\ Len(evs) = Len(raw)
        /\ \A i \in 1..Len(evs) :
            /\ AsU64(evs[i].timestamp) = raw[i].time
            /\ evs[i].message = [status |-> raw[i].msg[1],
                                 data1 |-> raw[i].msg[2],
                                 data2 |-> raw[i].msg[3]]

====
